---- MODULE Spec2Model ----
(***************************************************************************)
(* The queue / dispatch / retry / scheduling core of the Bananas task      *)
(* queue, as the documentation in this repository describes it: the Redis  *)
(* keys (priority lists, processing list, scheduled sorted set, dead       *)
(* letter list, job hashes), the producers that submit jobs, the worker    *)
(* goroutines that dequeue with BRPOPLPUSH and run Executor.Execute, the   *)
(* failure handling with 2^attempts backoff, and the retry scheduler that  *)
(* moves due jobs back to the priority lists under a SET NX lock.          *)
(***************************************************************************)
EXTENDS Integers, Sequences, FiniteSets, TLC

\* ------------------------------------------------------------- bounds
\* Job identifiers are 1..MaxJobs, handed out in submission order.
MaxJobs == 3
\* Number of jobs the general and the routing specification submit.
MaxJobsGeneral == 2
\* The clock of the general specification runs from 0 to MaxTime seconds.
MaxTime == 3
\* The clock of the retry specification runs from 0 to MaxTimeRetry seconds.
MaxTimeRetry == 14
\* Largest max-retry budget a job of the retry specification is given.
MaxBudget == 4
\* Number of jobs the retry specification submits.
MaxJobsRetry == 1
\* Largest max-retry budget a job of the general specification is given.
MaxBudgetGeneral == 2
\* SubmitJobScheduled asks for now + d seconds, d in 1..MaxDelay.
MaxDelay == 2
\* SubmitAndWait waits for t seconds, t in 1..MaxWait.
MaxWait == 2
\* NewClientWithConfig is given result TTLs of 1..MaxTTL seconds.
MaxTTL == 2
\* A Schedule's recurrence fires every CronPeriod seconds.
CronPeriod == 2
\* Lease time of the scheduler lock, in seconds.
LockTTL == 2

\* ---------------------------------------------------- program constants
\* RESULT_TTL_SUCCESS=3600, RESULT_TTL_FAILURE=86400 (seconds)
DefaultSuccessTTL == 3600
DefaultFailureTTL == 86400
\* retryDelay := math.Pow(2, float64(job.Attempts)) seconds
BackoffBase == 2

\* Priority order: High -> Normal -> Low.
PriorityOrder == <<"high", "normal", "low">>
Priorities == {"high", "normal", "low"}

\* A job without routing key goes to bananas:queue:{priority}; a routed one
\* to bananas:queue:{routingKey}:{priority}.
NoRoute == "default"
RoutingKeys == {NoRoute, "email", "gpu"}
QueueKeys == RoutingKeys \X Priorities

QueueKey(routingKey, priority) == <<routingKey, priority>>

\* registry.Register("send_email", handleSendEmail): the names with a handler.
Registry == {"send_email"}
JobNames == {"send_email", "resize_image"}

\* What one handler invocation can end in: a returned result, a returned
\* error, the context deadline (ctx.Err()), a recovered panic.
Outcomes == {"success", "failure", "timeout", "panic"}

\* A handler that does not check ctx.Done() past the deadline and does not
\* return: "hang".
Behaviours == Outcomes \cup {"hang"}

JobIds == 1..MaxJobs
\* The zero time.Time of a job that has no scheduled time.
Unset == 0 - 1

VARIABLES
  now,          \* the clock, in seconds
  jobs,         \* bananas:job:{id}: the job hashes
  submitting,   \* jobs whose record is written and which are not enqueued yet
  queues,       \* bananas:queue[:{routingKey}]:{priority}: FIFO lists
  processing,   \* bananas:queue:processing: list of in-flight jobs
  scheduled,    \* bananas:queue:scheduled: sorted set, {<<id, score>>}
  dead,         \* bananas:queue:dead: list
  results,      \* bananas:result:{id}
  published,    \* number of completion notifications published per job
  workers,      \* each worker goroutine: position, queue index, job, outcome
  scheds,       \* each scheduler instance: position and the due jobs it read
  lock,         \* the scheduler lock key: holder and expiry
  invocations,  \* per job: handler invocations so far (observed only)
  waiters,      \* per job: its submit-and-wait caller, if it has one
  config,       \* NewClientWithConfig: the result TTLs
  cron          \* cron component: dedup keys, jobs made, pending claims

vars == <<now, jobs, submitting, queues, processing, scheduled, dead, results,
          published, workers, scheds, lock, invocations,
          waiters,
          config,
          cron>>

\* --------------------------------------------------------------- helpers

Count(seq, j) == Cardinality({i \in DOMAIN seq : seq[i] = j})

\* (as a bug would have it: the entry is left in the list)
ListRemoveKeep(seq, j) == seq

\* LREM key 0 id: the list without the entries equal to j.
ListRemove(seq, j) == SelectSeq(seq, LAMBDA x : x # j)

\* (as a bug would have it: the value is pushed at the end the dequeue pops
\* from, which makes the list a stack)
ListPushHead(list, j) == <<j>> \o list

\* listPushTail(key, value): the lists are FIFO, a value is pushed at the
\* end opposite to the one the dequeue pops from.
ListPushTail(list, j) == Append(list, j)

\* ZADD: a member is in the sorted set once; adding it again moves its score.
SortedSetAdd(set, j, score) == {e \in set : e[1] # j} \cup {<<j, score>>}

\* (as a bug would have it: the member is left in the sorted set)
SortedSetRemoveKeep(set, j) == set

\* ZREM key id
SortedSetRemove(set, j) == {e \in set : e[1] # j}

SortedSetMembers(set) == {e[1] : e \in set}

\* (as a bug would have it: every member, whatever its score)
DueJobsAll(set, t) == {e[1] : e \in set}

\* ZRANGEBYSCORE key -inf now: the members with scheduled_for <= now().
DueJobs(set, t) == {e[1] : e \in {x \in set : x[2] <= t}}

\* type Job struct: the fields the queue core reads and writes.
NewJob(name, priority, routingKey, maxRetries, status, scheduledFor) ==
  [name |-> name, priority |-> priority, routingKey |-> routingKey,
   attempts |-> 0, maxRetries |-> maxRetries, status |-> status,
   scheduledFor |-> scheduledFor, error |-> ""]

AbsentJob == NewJob("", "", "", 0, "none", Unset)

\* bananas:result:{id}: the status field of the Result and the time the
\* key expires at (no key: status "").
NoResult == [status |-> "", expires |-> Unset]

\* The job id the next submission gets.
NextId ==
  IF \E j \in JobIds : jobs[j].status = "none"
  THEN CHOOSE j \in JobIds :
         /\ jobs[j].status = "none"
         /\ \A i \in JobIds : jobs[i].status = "none" => j <= i
  ELSE 0

\* ------------------------------------------------- worker configuration

WorkerIds == {"w1", "w2"}
SchedIds == {"s1", "s2"}

Modes ==
  {"thin", "default", "specialized", "job-specialized", "scheduler-only"}

\* (as a bug would have it: WORKER_MODE is not looked at)
ModePrioritiesAll(mode) == PriorityOrder

\* Worker modes: thin (only high), default (high and normal), specialized
\* and job-specialized (high, normal, low), scheduler-only (no processing).
ModePriorities(mode) ==
  CASE mode = "thin" -> <<"high">>
    [] mode = "default" -> <<"high", "normal">>
    [] mode = "specialized" -> PriorityOrder
    [] mode = "job-specialized" -> PriorityOrder
    [] OTHER -> <<>>

PriorityRank(priority) ==
  CHOOSE i \in DOMAIN PriorityOrder : PriorityOrder[i] = priority

\* (as a bug would have it: the worker's ROUTING_KEY is ignored and the
\* lists of every routing key are checked)
WorkerQueuesAnyKey(mode, keys) ==
  [i \in 1..(Len(ModePriorities(mode)) * 3) |->
     QueueKey(<<NoRoute, "email", "gpu">>[((i - 1) % 3) + 1],
              ModePriorities(mode)[((i - 1) \div 3) + 1])]

\* The lists a worker checks, in the order it checks them: high first,
\* normal if high is empty, low if normal is empty; within one priority the
\* lists of its routing keys in their configured order.
WorkerQueues(mode, keys) ==
  [i \in 1..(Len(ModePriorities(mode)) * Len(keys)) |->
     QueueKey(keys[((i - 1) % Len(keys)) + 1],
              ModePriorities(mode)[((i - 1) \div Len(keys)) + 1])]

IdleWorker(mode, keys) ==
  [mode |-> mode, keys |-> keys, pc |-> "dequeue", idx |-> 1, job |-> 0,
   out |-> ""]

\* The worker instances of the general and the retry specification:
\* WORKER_MODE=default, no routing key.
DefaultWorkers == [w \in WorkerIds |-> IdleWorker("default", <<NoRoute>>)]

\* The worker instances of the routing specification: an email pool and a
\* gpu pool (ROUTING_KEY=email, ROUTING_KEY=gpu).
RoutedWorkers ==
  [w \in WorkerIds |->
     IF w = "w1" THEN IdleWorker("default", <<"email">>)
     ELSE IdleWorker("default", <<"gpu">>)]

\* The worker instances of the priority specification: all three
\* priorities, no routing key.
SpecializedWorkers ==
  [w \in WorkerIds |-> IdleWorker("specialized", <<NoRoute>>)]

\* lease: when the lock this instance acquired for its tick runs out.
IdleSched == [pc |-> "idle", due |-> {}, lease |-> Unset]
FreeLock == [holder |-> "", expires |-> Unset]

\* scheduler.AddSchedule(&Schedule{Name, Cron, Job, Payload, Priority,
\* Timezone}): the configured schedules, by name.
Schedules == {"daily_report", "weekly_digest"}
ScheduleJob(schedule) == "generate_report"
SchedulePriority(schedule) == "normal"

\* The recurrence period the clock is in.
Period(t) == t \div CronPeriod

\* keys: the per-schedule-per-period dedup keys that are set; made: the jobs
\* materialized, as <<schedule, period, job id>>; claim: per instance, the
\* dedup key it has just set and not yet materialized the job for.
NoClaim == <<>>
NoCron == [keys |-> {}, made |-> {}, claim |-> [s \in SchedIds |-> NoClaim]]

\* A job nobody waits for; pc goes "submit" (the submit of SubmitAndWait),
\* "waiting" (subscribed to the job's channel), then "returned" (got holds
\* the status of the Result) or "timeout" (the error).
NoWaiter == [pc |-> "none", deadline |-> Unset, seen |-> 0, got |-> ""]

\* ------------------------------------------------------------------ Init

DefaultConfig ==
  [successTTL |-> DefaultSuccessTTL, failureTTL |-> DefaultFailureTTL]

InitConfig(workerConfig, configs) ==
  /\ config \in configs
  /\ now = 0
  /\ jobs = [j \in JobIds |-> AbsentJob]
  /\ submitting = {}
  /\ queues = [q \in QueueKeys |-> <<>>]
  /\ processing = <<>>
  /\ scheduled = {}
  /\ dead = <<>>
  /\ results = [j \in JobIds |-> NoResult]
  /\ published = [j \in JobIds |-> 0]
  /\ workers = workerConfig
  /\ scheds = [s \in SchedIds |-> IdleSched]
  /\ lock = FreeLock
  /\ invocations = [j \in JobIds |-> 0]
  /\ waiters = [j \in JobIds |-> NoWaiter]
  /\ cron = NoCron

InitWith(workerConfig) == InitConfig(workerConfig, {DefaultConfig})

Init == InitWith(DefaultWorkers)

\* --------------------------------------------------------- result backend

\* resultBackend.Store: the status of the result hash it writes (and it
\* publishes on the job's channel).
StoredResult(outcome) == IF outcome = "success" THEN "completed" ELSE "failed"

\* (as a bug would have it: one TTL for every result)
ResultTTLSame(status) == config.successTTL

\* Success results and failure results have their own TTL.
ResultTTL(status) ==
  IF status = "completed" THEN config.successTTL ELSE config.failureTTL

\* The result key as Store writes it at the current time.
Store(outcome) ==
  [status |-> StoredResult(outcome),
   expires |-> now + ResultTTL(StoredResult(outcome))]

\* (as a bug would have it: the read never finds the key)
GetResultNone(j) == "NotFound"

\* GetResult(ctx, jobID): the stored Result, and NotFound when there is no
\* key or its TTL has run out.
GetResult(j) ==
  IF results[j].status # "" /\ now < results[j].expires
  THEN results[j].status ELSE "NotFound"

\* ---------------------------------------------------------- client facade

\* First step of every submission: write the job record (hashSet).
SubmitWrite(name, priority, routingKey, maxRetries, scheduledFor) ==
  /\ NextId # 0
  /\ jobs' = [jobs EXCEPT ![NextId] =
                NewJob(name, priority, routingKey, maxRetries,
                       IF scheduledFor = Unset THEN "pending" ELSE "scheduled",
                       scheduledFor)]
  /\ submitting' = submitting \cup {NextId}
  /\ UNCHANGED <<now, queues, processing, scheduled, dead, results, published,
                 workers, scheds, lock, invocations, config>>

\* Second step: enqueue, at the tail of the list selected by (routingKey,
\* priority), or into the scheduled set when the job is deferred.
SubmitEnqueue(j) ==
  /\ j \in submitting
  /\ submitting' = submitting \ {j}
  /\ IF jobs[j].scheduledFor = Unset
     THEN /\ queues' = [queues EXCEPT
                          ![QueueKey(jobs[j].routingKey, jobs[j].priority)] =
                            ListPushTail(@, j)]
          /\ UNCHANGED scheduled
     ELSE /\ scheduled' = SortedSetAdd(scheduled, j, jobs[j].scheduledFor)
          /\ UNCHANGED queues
  /\ UNCHANGED <<now, jobs, processing, dead, results, published, workers,
                 scheds, lock, invocations, waiters, config, cron>>

\* SubmitJob(name, payload, priority, description)
SubmitJob(names, priorities, budgets) ==
  \E n \in names, p \in priorities, b \in budgets :
    SubmitWrite(n, p, NoRoute, b, Unset) /\ UNCHANGED <<waiters, cron>>

\* SubmitJobWithRoute(name, payload, priority, routingKey, description)
SubmitJobWithRoute(names, priorities, keys, budgets) ==
  \E n \in names, p \in priorities, k \in keys, b \in budgets :
    SubmitWrite(n, p, k, b, Unset) /\ UNCHANGED <<waiters, cron>>

\* SubmitJobScheduled(name, payload, priority, scheduledFor, description)
SubmitJobScheduled(names, priorities, delays, budgets) ==
  \E n \in names, p \in priorities, d \in delays, b \in budgets :
    SubmitWrite(n, p, NoRoute, b, now + d) /\ UNCHANGED <<waiters, cron>>

Enqueue == \E j \in JobIds : SubmitEnqueue(j)

\* SubmitAndWait(ctx, name, payload, priority, timeout): submit, then
\* awaitResult on the new job; the timeout runs from the call.
SubmitAndWait(names, priorities, budgets, timeouts) ==
  \E n \in names, p \in priorities, b \in budgets, t \in timeouts :
    /\ SubmitWrite(n, p, NoRoute, b, Unset)
    /\ waiters' = [waiters EXCEPT ![NextId] =
                     [pc |-> "submit", deadline |-> now + t, seen |-> 0,
                      got |-> ""]]
    /\ UNCHANGED cron

\* awaitResult subscribes to the job's notification channel once the submit
\* has returned: it gets the notifications published from now on.
AwaitSubscribe(j) ==
  /\ waiters[j].pc = "submit"
  /\ j \notin submitting
  /\ waiters' = [waiters EXCEPT ![j].pc = "waiting", ![j].seen = published[j]]
  /\ UNCHANGED <<now, jobs, submitting, queues, processing, scheduled, dead,
                 results, published, workers, scheds, lock, invocations,
                 config, cron>>

\* A notification for the job arrives before the timeout: the caller gets
\* the Result that was stored.
AwaitNotified(j) ==
  /\ waiters[j].pc = "waiting"
  /\ published[j] > waiters[j].seen
  /\ now <= waiters[j].deadline
  /\ GetResult(j) # "NotFound"
  /\ waiters' = [waiters EXCEPT ![j].pc = "returned",
                                ![j].got = GetResult(j)]
  /\ UNCHANGED <<now, jobs, submitting, queues, processing, scheduled, dead,
                 results, published, workers, scheds, lock, invocations,
                 config, cron>>

\* The timeout expires: a final read of the result, and the Timeout error
\* if there is none.
AwaitExpire(j) ==
  /\ waiters[j].pc = "waiting"
  /\ now >= waiters[j].deadline
  /\ waiters' = IF GetResult(j) # "NotFound"
                THEN [waiters EXCEPT ![j].pc = "returned",
                                     ![j].got = GetResult(j)]
                ELSE [waiters EXCEPT ![j].pc = "timeout"]
  /\ UNCHANGED <<now, jobs, submitting, queues, processing, scheduled, dead,
                 results, published, workers, scheds, lock, invocations,
                 config, cron>>

\* Job ids are unique without end: the slot of a completed job, which is in
\* no structure any more, is taken again by a later submission.
Forget(j) ==
  /\ jobs[j].status = "completed"
  /\ jobs' = [jobs EXCEPT ![j] = AbsentJob]
  /\ results' = [results EXCEPT ![j] = NoResult]
  /\ published' = [published EXCEPT ![j] = 0]
  /\ invocations' = [invocations EXCEPT ![j] = 0]
  /\ waiters' = [waiters EXCEPT ![j] = NoWaiter]
  /\ UNCHANGED <<now, submitting, queues, processing, scheduled, dead,
                 workers, scheds, lock, config, cron>>

\* ------------------------------------------------------------ dispatcher

\* BRPOPLPUSH src bananas:queue:processing, on a non-empty src: what is left
\* of src, and the processing list with the moved entry.
\* (as a bug would have it: the head is read and left in the source list)
PopSourceKeep(list) == list

PopSource(list) == Tail(list)

\* (as a bug would have it: RPOP, the job is not put on the processing list)
PushProcessingDrop(list, j) == list

PushProcessing(list, j) == Append(list, j)

\* One BRPOPLPUSH of the worker loop's dequeueJob(): on the list the worker
\* is at. A job there is moved to the processing list and returned; on an
\* empty list the call times out and the worker goes on to the next list,
\* starting over with the high list after the last one.
DequeueStep(w) ==
  LET wk == workers[w]
      qs == WorkerQueues(wk.mode, wk.keys)
  IN /\ wk.pc = "dequeue"
     /\ Len(qs) > 0
     /\ IF queues[qs[wk.idx]] # <<>>
        THEN LET q == qs[wk.idx]
                 j == Head(queues[q])
             IN /\ queues' = [queues EXCEPT ![q] = PopSource(@)]
                /\ processing' = PushProcessing(processing, j)
                /\ jobs' = [jobs EXCEPT ![j].status = "processing"]
                /\ workers' = [workers EXCEPT ![w].pc = "claimed",
                                              ![w].idx = 1, ![w].job = j]
        ELSE /\ workers' = [workers EXCEPT ![w].idx = (wk.idx % Len(qs)) + 1]
             /\ UNCHANGED <<queues, processing, jobs>>
     /\ UNCHANGED <<now, submitting, scheduled, dead, results, published,
                    scheds, lock, invocations, waiters, config, cron>>

\* (as a bug would have it: the ok of the lookup is ignored)
HandlerFoundAlways(name) == TRUE

\* handler, ok := e.registry.Get(job.Name)
HandlerFound(name) == name \in Registry

\* Executor.Execute: no handler, return "handler not found"; else invoke the
\* handler under the timeout and store what it returned. The handler is
\* called in the worker's goroutine with the context that carries the
\* deadline: a call that does not return leaves Execute in the call.
Execute(w, outcomes) ==
  LET j == workers[w].job
  IN /\ workers[w].pc = "claimed"
     /\ IF ~HandlerFound(jobs[j].name)
        THEN /\ workers' = [workers EXCEPT ![w].pc = "notfound",
                                           ![w].out = "handler not found"]
             /\ UNCHANGED <<results, published, invocations>>
        ELSE \E out \in outcomes :
               /\ invocations' = [invocations EXCEPT ![j] = @ + 1]
               /\ IF out = "hang"
                  THEN /\ workers' = [workers EXCEPT ![w].pc = "hung",
                                                     ![w].out = out]
                       /\ UNCHANGED <<results, published>>
                  ELSE /\ results' = [results EXCEPT ![j] = Store(out)]
                       /\ published' = [published EXCEPT ![j] = @ + 1]
                       /\ workers' = [workers EXCEPT ![w].pc = "executed",
                                                     ![w].out = out]
     /\ UNCHANGED <<now, jobs, submitting, queues, processing, scheduled,
                    dead, scheds, lock, waiters, config, cron>>

\* (as a bug would have it: the linear retry 1s, 2s, 3s...)
RetryDelayLinear(attempts) == attempts

\* retryDelay := time.Duration(math.Pow(2, float64(job.Attempts))) * time.Second
RetryDelay(attempts) == BackoffBase ^ attempts

\* The retry decision after the attempt count was incremented.
ShouldRetry(attempts, maxRetries) == attempts < maxRetries

\* On success: the job is completed and leaves the processing list (its
\* result was stored and published by Execute).
Complete(w) ==
  LET j == workers[w].job
  IN /\ workers[w].pc = "executed"
     /\ workers[w].out = "success"
     /\ jobs' = [jobs EXCEPT ![j].status = "completed"]
     /\ processing' = ListRemove(processing, j)
     /\ workers' = [workers EXCEPT ![w].pc = "dequeue", ![w].job = 0,
                                   ![w].out = ""]
     /\ UNCHANGED <<now, submitting, queues, scheduled, dead, results,
                    published, scheds, lock, invocations, waiters, config,
                    cron>>

\* On failure (returned error, timeout, recovered panic): increment the
\* attempt count; below the budget the job goes to the scheduled set for
\* now + 2^attempts, else to the dead letter queue as failed.
Fail(w) ==
  LET j == workers[w].job
      attempts == jobs[j].attempts + 1
  IN /\ workers[w].pc = "executed"
     /\ workers[w].out # "success"
     /\ processing' = ListRemove(processing, j)
     /\ IF ShouldRetry(attempts, jobs[j].maxRetries)
        THEN /\ jobs' = [jobs EXCEPT
                           ![j].attempts = attempts,
                           ![j].status = "scheduled",
                           ![j].scheduledFor = now + RetryDelay(attempts),
                           ![j].error = workers[w].out]
             /\ scheduled' =
                  SortedSetAdd(scheduled, j, now + RetryDelay(attempts))
             /\ UNCHANGED dead
        ELSE /\ jobs' = [jobs EXCEPT
                           ![j].attempts = attempts,
                           ![j].status = "failed",
                           ![j].error = workers[w].out]
             /\ dead' = Append(dead, j)
             /\ UNCHANGED scheduled
     /\ workers' = [workers EXCEPT ![w].pc = "dequeue", ![w].job = 0,
                                   ![w].out = ""]
     /\ UNCHANGED <<now, submitting, queues, results, published, scheds,
                    lock, invocations, waiters, config, cron>>

\* HandlerNotFound: straight to the dead letter queue, no retry consumed;
\* the failure is stored and published as the job's result.
DeadLetterNotFound(w) ==
  LET j == workers[w].job
  IN /\ workers[w].pc = "notfound"
     /\ jobs' = [jobs EXCEPT ![j].status = "failed",
                             ![j].error = workers[w].out]
     /\ processing' = ListRemove(processing, j)
     /\ dead' = Append(dead, j)
     /\ results' = [results EXCEPT ![j] = Store("handler not found")]
     /\ published' = [published EXCEPT ![j] = @ + 1]
     /\ workers' = [workers EXCEPT ![w].pc = "dequeue", ![w].job = 0,
                                   ![w].out = ""]
     /\ UNCHANGED <<now, submitting, queues, scheduled, scheds, lock,
                    invocations, waiters, config, cron>>

\* A worker process dies while it holds a job and is restarted: what it held
\* in memory is gone, the store is as it was.
WorkerCrash(w) ==
  /\ workers[w].job # 0
  /\ workers' = [workers EXCEPT ![w].pc = "dequeue", ![w].idx = 1,
                                ![w].job = 0, ![w].out = ""]
  /\ UNCHANGED <<now, jobs, submitting, queues, processing, scheduled, dead,
                 results, published, scheds, lock, invocations, waiters,
                 config, cron>>

\* ------------------------------------------------- retry/scheduler loop

\* (as a bug would have it: a plain SET, which also overwrites a held key)
LockAbsentAlways == TRUE

\* SET lock NX EX ttl succeeds only on an absent key.
LockAbsent == lock.holder = ""

\* Start of a tick: take the lock and read the scheduled set for the jobs
\* with scheduled_for <= now(). (A tick that does not get the lock is
\* skipped.)
SchedAcquire(s) ==
  /\ scheds[s].pc = "idle"
  /\ LockAbsent
  /\ lock' = [holder |-> s, expires |-> now + LockTTL]
  /\ scheds' = [scheds EXCEPT ![s] =
                  [pc |-> "promoting", due |-> DueJobs(scheduled, now),
                   lease |-> now + LockTTL]]
  /\ UNCHANGED <<now, jobs, submitting, queues, processing, scheduled, dead,
                 results, published, workers, invocations, waiters, config,
                 cron>>

\* One due job: removed from the scheduled set and appended to the list of
\* its own priority and routing key in one atomic step; status pending,
\* scheduled timestamp cleared.
SchedPromote(s, j) ==
  /\ scheds[s].pc = "promoting"
  /\ j \in scheds[s].due
  /\ scheds' = [scheds EXCEPT ![s].due = @ \ {j}]
  /\ IF j \in SortedSetMembers(scheduled)
     THEN /\ scheduled' = SortedSetRemove(scheduled, j)
          /\ queues' = [queues EXCEPT
                          ![QueueKey(jobs[j].routingKey, jobs[j].priority)] =
                            ListPushTail(@, j)]
          /\ jobs' = [jobs EXCEPT ![j].status = "pending",
                                  ![j].scheduledFor = Unset]
     ELSE UNCHANGED <<scheduled, queues, jobs>>
  /\ UNCHANGED <<now, submitting, processing, dead, results, published,
                 workers, lock, invocations, waiters, config, cron>>

\* Start of a tick while the lock key is there: SET NX fails, the tick is
\* skipped (LockNotAcquired).
SchedSkip(s) ==
  /\ scheds[s].pc = "idle"
  /\ ~LockAbsent
  /\ scheds' = [scheds EXCEPT ![s].pc = "skipped"]
  /\ UNCHANGED <<now, jobs, submitting, queues, processing, scheduled, dead,
                 results, published, workers, lock, invocations, waiters,
                 config, cron>>

\* The skipped tick is over: the instance waits for its next tick.
SchedSleep(s) ==
  /\ scheds[s].pc = "skipped"
  /\ scheds' = [scheds EXCEPT ![s] = IdleSched]
  /\ UNCHANGED <<now, jobs, submitting, queues, processing, scheduled, dead,
                 results, published, workers, lock, invocations, waiters,
                 config, cron>>

\* End of the tick: release the lock if it is still this instance's.
SchedRelease(s) ==
  /\ scheds[s].pc = "promoting"
  /\ scheds[s].due = {}
  /\ scheds' = [scheds EXCEPT ![s] = IdleSched]
  /\ lock' = IF lock.holder = s THEN FreeLock ELSE lock
  /\ UNCHANGED <<now, jobs, submitting, queues, processing, scheduled, dead,
                 results, published, workers, invocations, waiters, config,
                 cron>>

\* A scheduler instance dies in the middle of a tick and is restarted; its
\* lock stays until the TTL removes it.
SchedCrash(s) ==
  /\ scheds[s].pc = "promoting"
  /\ scheds' = [scheds EXCEPT ![s] = IdleSched]
  /\ UNCHANGED <<now, jobs, submitting, queues, processing, scheduled, dead,
                 results, published, workers, lock, invocations, waiters,
                 config, cron>>

\* -------------------------------------------------------- cron component

\* (as a bug would have it: the dedup key is taken per schedule and tick)
DedupKeyPerTick(schedule, t) == <<schedule, t>>

\* The per-schedule-per-period dedup key.
DedupKey(schedule, t) == <<schedule, Period(t)>>

\* An instance evaluates a schedule whose recurrence has fired in the
\* current period: it sets the dedup key if absent (and skips the schedule
\* if the key is there).
CronClaim(s, schedule) ==
  /\ cron.claim[s] = NoClaim
  /\ DedupKey(schedule, now) \notin cron.keys
  /\ cron' = [cron EXCEPT !.keys = @ \cup {DedupKey(schedule, now)},
                          !.claim[s] = <<schedule, Period(now)>>]
  /\ UNCHANGED <<now, jobs, submitting, queues, processing, scheduled, dead,
                 results, published, workers, scheds, lock, invocations,
                 waiters, config>>

\* The instance that set the dedup key materializes the schedule's job: it
\* writes the job record; the enqueue follows as for every submission.
CronMaterialize(s) ==
  /\ cron.claim[s] # NoClaim
  /\ SubmitWrite(ScheduleJob(cron.claim[s][1]),
                 SchedulePriority(cron.claim[s][1]), NoRoute,
                 MaxBudgetGeneral, Unset)
  /\ cron' = [cron EXCEPT
                !.made = @ \cup {<<cron.claim[s][1], cron.claim[s][2], NextId>>},
                !.claim[s] = NoClaim]
  /\ UNCHANGED waiters

\* ----------------------------------------------------------------- clock

\* (as a bug would have it: the lock key is set without a TTL)
LockExpiredNever(t) == FALSE

\* The lock key is there and its TTL has run out at time t.
LockExpired(t) == lock.holder # "" /\ lock.expires <= t

\* The lock TTL exceeds the duration of a tick: a running tick is over
\* before its lease ends.
TickWithinLease ==
  \A s \in SchedIds :
    (scheds[s].pc = "promoting" /\ lock.holder = s) => now + 1 < lock.expires

\* One second passes; a lock key whose TTL has run out is gone.
Tick(maxTime) ==
  /\ now < maxTime
  /\ TickWithinLease
  /\ now' = now + 1
  /\ lock' = IF LockExpired(now + 1) THEN FreeLock ELSE lock
  /\ UNCHANGED <<jobs, submitting, queues, processing, scheduled, dead,
                 results, published, workers, scheds, invocations, waiters,
                 config, cron>>

\* One second passes while a running tick has reached the end of its lease:
\* the tick lasts longer than the lock TTL, and its lock key is gone.
TickOverrun(maxTime) ==
  /\ now < maxTime
  /\ ~TickWithinLease
  /\ now' = now + 1
  /\ lock' = IF LockExpired(now + 1) THEN FreeLock ELSE lock
  /\ UNCHANGED <<jobs, submitting, queues, processing, scheduled, dead,
                 results, published, workers, scheds, invocations, waiters,
                 config, cron>>

\* -------------------------------------------------------- specifications

\* The general specification: unrouted jobs of high and normal priority,
\* with and without a registered handler, submitted for now or for later,
\* served by two default-mode workers and two scheduler instances.
Budgets == {MaxBudgetGeneral}
Delays == 1..MaxDelay
GeneralPriorities == {"high", "normal"}
GeneralOutcomes == {"success", "failure"}

Next ==
  \/ /\ NextId \in 1..MaxJobsGeneral
     /\ SubmitJob(JobNames, GeneralPriorities, Budgets)
  \/ /\ NextId \in 1..MaxJobsGeneral
     /\ SubmitJobScheduled(JobNames, GeneralPriorities, Delays, Budgets)
  \/ Enqueue
  \/ \E w \in WorkerIds : DequeueStep(w)
  \/ \E w \in WorkerIds : Execute(w, GeneralOutcomes)
  \/ \E w \in WorkerIds : Complete(w)
  \/ \E w \in WorkerIds : Fail(w)
  \/ \E w \in WorkerIds : DeadLetterNotFound(w)
  \/ \E w \in WorkerIds : WorkerCrash(w)
  \/ \E s \in SchedIds : SchedAcquire(s)
  \/ \E s \in SchedIds, j \in JobIds : SchedPromote(s, j)
  \/ \E s \in SchedIds : SchedRelease(s)
  \/ \E s \in SchedIds : SchedCrash(s)
  \/ Tick(MaxTime)

Spec == Init /\ [][Next]_vars

\* The retry specification: jobs with a registered handler and a max-retry
\* budget of 0..MaxBudget, whose handler may succeed, fail, time out or
\* panic at every invocation, over a clock long enough for the backoff.
RetryBudgets == 0..MaxBudget

NextRetry ==
  \/ /\ NextId \in 1..MaxJobsRetry
     /\ SubmitJob(Registry, {"high"}, RetryBudgets)
  \/ Enqueue
  \/ \E w \in WorkerIds : DequeueStep(w)
  \/ \E w \in WorkerIds : Execute(w, Outcomes)
  \/ \E w \in WorkerIds : Complete(w)
  \/ \E w \in WorkerIds : Fail(w)
  \/ \E w \in WorkerIds : WorkerCrash(w)
  \/ \E s \in SchedIds : SchedAcquire(s)
  \/ \E s \in SchedIds, j \in JobIds : SchedPromote(s, j)
  \/ \E s \in SchedIds : SchedRelease(s)
  \/ \E s \in SchedIds : SchedCrash(s)
  \/ Tick(MaxTimeRetry)

SpecRetry == Init /\ [][NextRetry]_vars

\* The priority specification: unrouted jobs of all three priorities that
\* are not retried, served by two workers that process all priorities.
InitPriority == InitWith(SpecializedWorkers)

NextPriority ==
  \/ SubmitJob(Registry, Priorities, {0})
  \/ Enqueue
  \/ \E w \in WorkerIds : DequeueStep(w)
  \/ \E w \in WorkerIds : Execute(w, GeneralOutcomes)
  \/ \E w \in WorkerIds : Complete(w)
  \/ \E w \in WorkerIds : Fail(w)
  \/ \E w \in WorkerIds : WorkerCrash(w)

SpecPriority == InitPriority /\ [][NextPriority]_vars

\* The routing specification: jobs routed to "email" and to "gpu", retried
\* once, served by an email worker and a gpu worker.
InitRouting == InitWith(RoutedWorkers)

NextRouting ==
  \/ /\ NextId \in 1..MaxJobsGeneral
     /\ SubmitJobWithRoute(Registry, GeneralPriorities, {"email", "gpu"},
                           Budgets)
  \/ Enqueue
  \/ \E w \in WorkerIds : DequeueStep(w)
  \/ \E w \in WorkerIds : Execute(w, GeneralOutcomes)
  \/ \E w \in WorkerIds : Complete(w)
  \/ \E w \in WorkerIds : Fail(w)
  \/ \E w \in WorkerIds : WorkerCrash(w)
  \/ \E s \in SchedIds : SchedAcquire(s)
  \/ \E s \in SchedIds, j \in JobIds : SchedPromote(s, j)
  \/ \E s \in SchedIds : SchedRelease(s)
  \/ \E s \in SchedIds : SchedCrash(s)
  \/ Tick(MaxTime)

SpecRouting == InitRouting /\ [][NextRouting]_vars

\* The lease specification: deferred and retried jobs, and scheduler
\* instances whose ticks may also last longer than the lock TTL.
NextLease ==
  \/ /\ NextId \in 1..MaxJobsGeneral
     /\ SubmitJobScheduled(Registry, {"high"}, Delays, Budgets)
  \/ Enqueue
  \/ \E w \in WorkerIds : DequeueStep(w)
  \/ \E w \in WorkerIds : Execute(w, GeneralOutcomes)
  \/ \E w \in WorkerIds : Complete(w)
  \/ \E w \in WorkerIds : Fail(w)
  \/ \E s \in SchedIds : SchedAcquire(s)
  \/ \E s \in SchedIds, j \in JobIds : SchedPromote(s, j)
  \/ \E s \in SchedIds : SchedRelease(s)
  \/ \E s \in SchedIds : SchedCrash(s)
  \/ Tick(MaxTime)
  \/ TickOverrun(MaxTime)

SpecLease == Init /\ [][NextLease]_vars

\* The wait specification: jobs submitted with SubmitAndWait, retried by
\* the dispatcher and the scheduler while their callers wait.
Timeouts == 1..MaxWait

NextWait ==
  \/ /\ NextId \in 1..MaxJobsRetry
     /\ SubmitAndWait(Registry, {"high"}, Budgets, Timeouts)
  \/ Enqueue
  \/ \E j \in JobIds : AwaitSubscribe(j)
  \/ \E j \in JobIds : AwaitNotified(j)
  \/ \E j \in JobIds : AwaitExpire(j)
  \/ \E w \in WorkerIds : DequeueStep(w)
  \/ \E w \in WorkerIds : Execute(w, GeneralOutcomes)
  \/ \E w \in WorkerIds : Complete(w)
  \/ \E w \in WorkerIds : Fail(w)
  \/ \E s \in SchedIds : SchedAcquire(s)
  \/ \E s \in SchedIds, j \in JobIds : SchedPromote(s, j)
  \/ \E s \in SchedIds : SchedRelease(s)
  \/ Tick(MaxTimeRetry)

SpecWait == Init /\ [][NextWait]_vars

\* The result specification: jobs with and without handler, retried once,
\* under every pair of result TTLs of 1..MaxTTL seconds.
TTLs == 1..MaxTTL

InitResult ==
  InitConfig(DefaultWorkers, [successTTL : TTLs, failureTTL : TTLs])

NextResult ==
  \/ /\ NextId \in 1..MaxJobsRetry
     /\ SubmitJob(JobNames, {"high"}, Budgets)
  \/ Enqueue
  \/ \E w \in WorkerIds : DequeueStep(w)
  \/ \E w \in WorkerIds : Execute(w, Outcomes)
  \/ \E w \in WorkerIds : Complete(w)
  \/ \E w \in WorkerIds : Fail(w)
  \/ \E w \in WorkerIds : DeadLetterNotFound(w)
  \/ \E s \in SchedIds : SchedAcquire(s)
  \/ \E s \in SchedIds, j \in JobIds : SchedPromote(s, j)
  \/ \E s \in SchedIds : SchedRelease(s)
  \/ Tick(MaxTimeRetry)

SpecResult == InitResult /\ [][NextResult]_vars

\* The steps of worker w from its dequeue to the end of its job.
WorkerStep(w) ==
  \/ DequeueStep(w)
  \/ Execute(w, GeneralOutcomes)
  \/ Complete(w)
  \/ Fail(w)

\* The crash specification: jobs that are not retried, workers that may die
\* with a job in hand and are restarted; every worker keeps running and
\* every submission is finished.
NextCrash ==
  \/ /\ NextId \in 1..MaxJobsGeneral
     /\ SubmitJob(Registry, GeneralPriorities, {0})
  \/ Enqueue
  \/ \E w \in WorkerIds : WorkerStep(w)
  \/ \E w \in WorkerIds : WorkerCrash(w)

SpecCrash ==
  /\ Init /\ [][NextCrash]_vars
  /\ \A j \in JobIds : WF_vars(SubmitEnqueue(j))
  /\ \A w \in WorkerIds : WF_vars(WorkerStep(w))

\* The starvation specification: an endless stream of jobs of all three
\* priorities that succeed, served by workers that process all priorities
\* and keep running.
NextStarve ==
  \/ SubmitJob(Registry, Priorities, {0})
  \/ Enqueue
  \/ \E w \in WorkerIds : WorkerStep(w)
  \/ \E j \in JobIds : Forget(j)

SpecStarve ==
  /\ InitPriority /\ [][NextStarve]_vars
  /\ \A j \in JobIds : WF_vars(SubmitEnqueue(j))
  /\ \A w \in WorkerIds : WF_vars(WorkerStep(w))

\* The steps of worker w when handlers may also ignore the deadline.
WorkerStepAny(w) ==
  \/ DequeueStep(w)
  \/ Execute(w, Behaviours)
  \/ Complete(w)
  \/ Fail(w)

\* The timeout specification: jobs with and without retries whose handlers
\* succeed, fail, panic, return at the deadline or never return; every
\* worker keeps running and every submission is finished.
NextTimeout ==
  \/ /\ NextId \in 1..MaxJobsGeneral
     /\ SubmitJob(Registry, GeneralPriorities, {0, MaxBudgetGeneral})
  \/ Enqueue
  \/ \E w \in WorkerIds : WorkerStepAny(w)

SpecTimeout ==
  /\ Init /\ [][NextTimeout]_vars
  /\ \A j \in JobIds : WF_vars(SubmitEnqueue(j))
  /\ \A w \in WorkerIds : WF_vars(WorkerStepAny(w))

\* The cron specification: two scheduler instances evaluate two schedules
\* at every tick; the materialized jobs are dispatched (no handler is
\* registered for them here).
NextCron ==
  \/ \E s \in SchedIds, schedule \in Schedules : CronClaim(s, schedule)
  \/ \E s \in SchedIds : CronMaterialize(s)
  \/ Enqueue
  \/ \E w \in WorkerIds : DequeueStep(w)
  \/ \E w \in WorkerIds : Execute(w, GeneralOutcomes)
  \/ \E w \in WorkerIds : DeadLetterNotFound(w)
  \/ Tick(MaxTime)

SpecCron == Init /\ [][NextCron]_vars

\* The mode specification: every pair of worker modes, unrouted jobs of all
\* three priorities that are not retried.
InitModes ==
  \E m1, m2 \in Modes :
    InitWith([w \in WorkerIds |->
                IF w = "w1" THEN IdleWorker(m1, <<NoRoute>>)
                ELSE IdleWorker(m2, <<NoRoute>>)])

NextModes ==
  \/ /\ NextId \in 1..MaxJobsGeneral
     /\ SubmitJob(Registry, Priorities, {0})
  \/ Enqueue
  \/ \E w \in WorkerIds : DequeueStep(w)
  \/ \E w \in WorkerIds : Execute(w, GeneralOutcomes)
  \/ \E w \in WorkerIds : Complete(w)
  \/ \E w \in WorkerIds : Fail(w)

SpecModes == InitModes /\ [][NextModes]_vars

\* The steps of scheduler instance s from the start to the end of a tick.
SchedStep(s) ==
  \/ SchedAcquire(s)
  \/ \E j \in JobIds : SchedPromote(s, j)
  \/ SchedRelease(s)

\* The lockout specification: deferred jobs and two scheduler instances.
\* Instance s1 may stop for good anywhere in a tick, or die in it and come
\* back; instance s2 keeps ticking, the clock keeps running and every
\* submission is finished. (The last lease s1 takes ends within the clock's
\* range.)
NextLockout ==
  \/ /\ NextId \in 1..MaxJobsGeneral
     /\ SubmitJobScheduled(Registry, {"high"}, Delays, {0})
  \/ Enqueue
  \/ /\ now + LockTTL <= MaxTime
     /\ SchedAcquire("s1")
  \/ \E j \in JobIds : SchedPromote("s1", j)
  \/ SchedRelease("s1")
  \/ SchedCrash("s1")
  \/ SchedStep("s2")
  \/ Tick(MaxTime)
  \/ TickOverrun(MaxTime)

SpecLockout ==
  /\ Init /\ [][NextLockout]_vars
  /\ \A j \in JobIds : WF_vars(SubmitEnqueue(j))
  /\ WF_vars(SchedStep("s2"))
  /\ WF_vars(Tick(MaxTime) \/ TickOverrun(MaxTime))

\* The skip specification: jobs submitted for now and for later, and two
\* scheduler instances whose ticks either get the lock or are skipped.
NextSkip ==
  \/ /\ NextId \in 1..MaxJobsGeneral
     /\ SubmitJob(Registry, {"high"}, {0})
  \/ /\ NextId \in 1..MaxJobsGeneral
     /\ SubmitJobScheduled(Registry, {"high"}, Delays, {0})
  \/ Enqueue
  \/ \E s \in SchedIds : SchedAcquire(s)
  \/ \E s \in SchedIds : SchedSkip(s)
  \/ \E s \in SchedIds : SchedSleep(s)
  \/ \E s \in SchedIds, j \in JobIds : SchedPromote(s, j)
  \/ \E s \in SchedIds : SchedRelease(s)
  \/ \E s \in SchedIds : SchedCrash(s)
  \/ Tick(MaxTime)

SpecSkip == Init /\ [][NextSkip]_vars

\* ---------------------------------------------------------------- claims

\* The number of queue-like structures' entries that hold job j: in the
\* priority lists, the processing list, the scheduled set and the dead
\* letter queue.
InQueues(j) ==
  Cardinality(UNION {{<<q, i>> : i \in {k \in DOMAIN queues[q] :
                                          queues[q][k] = j}} :
                     q \in QueueKeys})

InScheduled(j) == Cardinality({e \in scheduled : e[1] = j})

Occurrences(j) ==
  InQueues(j) + Count(processing, j) + InScheduled(j) + Count(dead, j)

Submitted == {j \in JobIds : jobs[j].status # "none"}

Holders(j) == {w \in WorkerIds : workers[w].job = j}

\* C3: a job is never held by two dispatchers at the same time: no two
\* workers have been returned the same job identifier by their dequeue.
C3_NoDoubleClaim ==
  \A j \in JobIds : Cardinality(Holders(j)) <= 1

\* C3 witness: both workers hold a job, each dequeued from the same list.
C3_Witness ==
  \E j1, j2 \in Submitted :
    /\ j1 # j2
    /\ jobs[j1].priority = jobs[j2].priority
    /\ Holders(j1) # {} /\ Holders(j2) # {}

C8_NeverLost ==
  \A j \in Submitted :
    /\ (jobs[j].status \in {"pending", "processing", "scheduled"}
          /\ j \notin submitting) => Occurrences(j) >= 1
    /\ jobs[j].status = "failed" => Count(dead, j) >= 1

\* C8 witness: a worker died after its dequeue (the job is on the processing
\* list and no worker holds it), and a scheduler instance died in its tick
\* (its lock is still there) with a due job left in the scheduled set.
C8_Witness ==
  /\ \E j \in Submitted :
       /\ jobs[j].status = "processing" /\ Count(processing, j) = 1
       /\ Holders(j) = {}
  /\ lock.holder # "" /\ scheds[lock.holder].pc = "idle"
  /\ DueJobs(scheduled, now) # {}

C1_InvocationBound ==
  \A j \in Submitted : invocations[j] <= jobs[j].maxRetries + 1

\* C1 witness: a job with a budget of at least 2 exhausted its retries and
\* is dead-lettered.
C1_Witness ==
  \E j \in Submitted :
    /\ jobs[j].maxRetries >= 2
    /\ jobs[j].status = "failed" /\ Count(dead, j) = 1
    /\ invocations[j] >= 2

\* C2 (as claimed): a dead-lettered job with maxRetries = 3 (its handler
\* failed at every invocation) was invoked exactly 4 times.
C2_FourInvocations ==
  \A j \in Submitted :
    (jobs[j].maxRetries = 3 /\ jobs[j].status = "failed") =>
      /\ Count(dead, j) = 1
      /\ invocations[j] = 4

\* C10: a failure that leaves the attempt count k below the budget puts the
\* job into the scheduled set for now + 2^k; a job leaves the scheduled
\* state only at or after its scheduled time, and is dispatched only from a
\* priority list, so not before that time.
C10_Backoff ==
  [][\A j \in JobIds :
       /\ (jobs'[j].attempts = jobs[j].attempts + 1
             /\ jobs'[j].attempts < jobs'[j].maxRetries) =>
            /\ jobs'[j].status = "scheduled"
            /\ jobs'[j].scheduledFor = now + 2 ^ jobs'[j].attempts
            /\ <<j, now + 2 ^ jobs'[j].attempts>> \in scheduled'
       /\ (jobs[j].status = "scheduled" /\ jobs'[j].status # "scheduled") =>
            now >= jobs[j].scheduledFor
       /\ (jobs[j].status # "processing" /\ jobs'[j].status = "processing") =>
            jobs[j].status = "pending"
    ]_vars

\* C10 witness: a third failure has just put a job into the scheduled set,
\* 8 seconds ahead.
C10_Witness ==
  \E j \in Submitted :
    /\ jobs[j].attempts = 3 /\ jobs[j].status = "scheduled"
    /\ <<j, now + 8>> \in scheduled

\* The lists of worker w that have a higher priority than job j's.
HigherLists(w, j) ==
  {QueueKey(workers[w].keys[k], ModePriorities(workers[w].mode)[i]) :
     k \in DOMAIN workers[w].keys,
     i \in {r \in DOMAIN ModePriorities(workers[w].mode) :
              PriorityRank(ModePriorities(workers[w].mode)[r])
                < PriorityRank(jobs[j].priority)}}

\* C4 (as claimed): whenever a dequeue returns a job to a worker, every list
\* of higher priority that the worker serves is empty at that moment.
C4_StrictPriority ==
  [][\A w \in WorkerIds :
       (workers[w].job = 0 /\ workers'[w].job # 0) =>
         \A q \in HigherLists(w, workers'[w].job) : queues[q] = <<>>
    ]_vars

\* The routing keys a worker is configured with.
WorkerKeySet(w) == {workers[w].keys[k] : k \in DOMAIN workers[w].keys}

\* C5: a worker only ever holds jobs whose routing key is one of its own:
\* the email worker never gets a gpu job.
C5_RoutingIsolation ==
  \A w \in WorkerIds :
    workers[w].job # 0 => jobs[workers[w].job].routingKey \in WorkerKeySet(w)

\* C5 witness: the gpu job was retried and promoted and is held by the gpu
\* worker again, while the email worker holds the email job.
C5_Witness ==
  \E j1, j2 \in Submitted :
    /\ jobs[j1].routingKey = "gpu" /\ jobs[j1].attempts = 1
    /\ Holders(j1) = {"w2"}
    /\ jobs[j2].routingKey = "email" /\ Holders(j2) = {"w1"}

\* A job deferred by its submission: scheduled and not yet attempted.
Deferred(j) == jobs[j].status = "scheduled" /\ jobs[j].attempts = 0

\* Scheduler instance s promotes job j in this step.
PromotedBy(s, j) ==
  /\ scheds[s].pc = "promoting" /\ lock.holder = s
  /\ j \in scheds[s].due /\ j \notin scheds'[s].due

\* C6: a deferred job, once enqueued, is in the scheduled set under its
\* scheduledFor, in no priority list, held by no worker and not executed;
\* it leaves that state only at a clock >= scheduledFor, by a promotion of
\* a scheduler tick, into the priority list of its own priority.
C6_DeferredUntilDue ==
  [][\A j \in JobIds :
       /\ (Deferred(j) /\ j \notin submitting)' =>
            (/\ <<j, jobs[j].scheduledFor>> \in scheduled
             /\ InQueues(j) = 0 /\ Count(processing, j) = 0
             /\ Holders(j) = {} /\ invocations[j] = 0)'
       /\ (Deferred(j) /\ ~Deferred(j)') =>
            /\ now >= jobs[j].scheduledFor
            /\ \E s \in SchedIds : PromotedBy(s, j)
            /\ jobs'[j].status = "pending"
            /\ Len(queues'[QueueKey(jobs[j].routingKey, jobs[j].priority)])
                 = Len(queues[QueueKey(jobs[j].routingKey, jobs[j].priority)])
                     + 1
    ]_vars

\* C6 witness: a scheduler tick is running before the scheduledFor of a
\* deferred job, which stays in the scheduled set.
C6_Witness ==
  \E j \in Submitted, s \in SchedIds :
    /\ Deferred(j) /\ now < jobs[j].scheduledFor
    /\ <<j, jobs[j].scheduledFor>> \in scheduled
    /\ scheds[s].pc = "promoting" /\ j \notin scheds[s].due

\* The scheduler instances that are in the promotion step of a tick.
Promoting == {s \in SchedIds : scheds[s].pc = "promoting"}

\* The promoting instances whose tick is still within the lock TTL.
WithinLease == {s \in Promoting : now < scheds[s].lease}

C12_PromotedOnce ==
  [][\A j \in JobIds :
       /\ InQueues(j)' > InQueues(j) =>
            /\ InQueues(j) = 0 /\ InQueues(j)' = 1
            /\ \/ j \in submitting /\ j \notin submitting'
               \/ InScheduled(j) = 1 /\ InScheduled(j)' = 0
       /\ (InQueues(j) + InScheduled(j) + Count(processing, j) <= 1)'
    ]_vars

\* C12 witness: a job was promoted while the other instance, whose lock has
\* run out in the middle of its tick, still has it in its list of due jobs.
C12_Witness ==
  \E j \in Submitted, s \in Promoting :
    /\ InQueues(j) = 1 /\ j \in scheds[s].due
    /\ s \notin WithinLease

\* A job in a terminal state: completed, or failed (dead-lettered).
Terminal(j) == jobs[j].status \in {"completed", "failed"}

\* C13 (as claimed): the Result that submit-and-wait returned is the
\* job's: once the job is in its terminal state, the returned status is
\* that state; the wait fails with Timeout only at or after the deadline
\* and for a job that has not reached a terminal state; and a step of the
\* wait changes nothing of the job: not its record, not the structure that
\* holds it, not its result.
C13_SubmitAndWait ==
  [][\A j \in JobIds :
       /\ (waiters[j].pc = "returned" /\ Terminal(j))' =>
            (waiters[j].got = jobs[j].status)'
       /\ (waiters[j].pc = "waiting" /\ waiters'[j].pc = "timeout") =>
            /\ now >= waiters[j].deadline
            /\ ~Terminal(j)
       /\ (waiters[j].pc # "none" /\ waiters'[j] # waiters[j]) =>
            /\ jobs'[j] = jobs[j]
            /\ Occurrences(j)' = Occurrences(j)
            /\ results'[j] = results[j]
    ]_vars

C15_LeavesProcessing ==
  \A j \in JobIds : (Count(processing, j) > 0) ~> (Count(processing, j) = 0)

\* C16 (as claimed): a normal or low priority job that waits in its list is
\* eventually dequeued, also while high priority jobs keep arriving.
C16_NoStarvation ==
  \A j \in JobIds :
    (jobs[j].priority \in {"normal", "low"} /\ InQueues(j) = 1)
      ~> (InQueues(j) = 0)

\* C17: a pending, processing or scheduled job has an attempt count of at
\* most its max-retry budget, and no step lowers an attempt count.
C17_AttemptsWithinBudget ==
  [][\A j \in JobIds :
       /\ (jobs[j].status \in {"pending", "processing", "scheduled"} =>
             jobs[j].attempts <= jobs[j].maxRetries)'
       /\ jobs'[j].attempts >= jobs[j].attempts
    ]_vars

\* C17 witness: a job is executed for the last time its budget allows: it
\* was retried and one more failure exhausts the budget.
C17_Witness ==
  \E j \in Submitted :
    /\ jobs[j].status = "processing" /\ jobs[j].attempts >= 1
    /\ jobs[j].attempts + 1 = jobs[j].maxRetries

\* Worker w is in a handler invocation that ran into the per-job timeout.
TimedOut(w) ==
  /\ workers[w].pc \in {"executed", "hung"}
  /\ workers[w].out \in {"timeout", "hang"}

\* C18 (as claimed): a worker whose handler invocation ran into the timeout
\* gets back to dequeuing, whether or not the handler returns, and the step
\* that ends the job's execution counts one attempt and leaves the job
\* rescheduled or dead-lettered.
C18_TimeoutIsFailure ==
  /\ \A w \in WorkerIds : TimedOut(w) ~> (workers[w].pc = "dequeue")
  /\ [][\A w \in WorkerIds :
          (TimedOut(w) /\ workers'[w].pc = "dequeue") =>
            /\ jobs'[workers[w].job].attempts
                 = jobs[workers[w].job].attempts + 1
            /\ jobs'[workers[w].job].status \in {"scheduled", "failed"}
            /\ Count(processing', workers[w].job) = 0
       ]_vars

\* The jobs materialized for a schedule in a recurrence period.
MadeFor(schedule, period) ==
  {e \in cron.made : e[1] = schedule /\ e[2] = period}

\* C19: for each schedule and each recurrence period at most one job is
\* materialized, and it is enqueued at most once, whatever the instances
\* and however many ticks fall inside the period.
C19_OneJobPerPeriod ==
  \A schedule \in Schedules, period \in 0..Period(now) :
    /\ Cardinality(MadeFor(schedule, period)) <= 1
    /\ \A e \in MadeFor(schedule, period) : Occurrences(e[3]) <= 1

\* C19 witness: the clock is past the first tick of a later period, and a
\* schedule has its one job of the first period and its one job of the
\* current period.
C19_Witness ==
  \E schedule \in Schedules :
    /\ Period(now) >= 1 /\ now % CronPeriod >= 1
    /\ Cardinality(MadeFor(schedule, 0)) = 1
    /\ Cardinality(MadeFor(schedule, Period(now))) = 1

InList(q, j) == \E i \in DOMAIN queues[q] : queues[q][i] = j

\* Job a is nearer than job b to the end of list q that the dequeue pops.
Ahead(q, a, b) ==
  \E i, k \in DOMAIN queues[q] :
    i < k /\ queues[q][i] = a /\ queues[q][k] = b

\* C21: the lists are FIFO: a job enqueued into a list where another job
\* waits is behind that job, two waiting jobs keep their order, and a job
\* does not leave the list while a job enqueued before it still waits there.
C21_Fifo ==
  [][\A q \in QueueKeys, a, b \in JobIds :
       /\ (InList(q, a) /\ ~InList(q, b) /\ (InList(q, a) /\ InList(q, b))')
             => Ahead(q, a, b)'
       /\ (Ahead(q, a, b) /\ (InList(q, a) /\ InList(q, b))')
             => Ahead(q, a, b)'
       /\ (Ahead(q, a, b) /\ InList(q, a)') => InList(q, b)'
    ]_vars

\* C21 witness: a worker holds the job that was dequeued from a list in
\* which two more jobs wait, the later submitted one ahead of the earlier.
C21_Witness ==
  \E w \in WorkerIds, a, b \in Submitted :
    /\ workers[w].job # 0 /\ workers[w].job \notin {a, b}
    /\ a > b
    /\ Ahead(QueueKey(NoRoute, jobs[workers[w].job].priority), a, b)

\* The list selected by the routing key and the priority in job j's record.
OwnList(j) == <<jobs[j].routingKey, jobs[j].priority>>

\* C22: a step that takes a job out of the scheduled set is the promotion
\* of a due job by a scheduler instance in its tick: it appends the job to
\* the list of the job's own routing key and priority and changes no other
\* list, sets the status to pending and clears the scheduled timestamp, and
\* leaves every other field of the record (name, priority, routing key,
\* attempt count, max-retry budget, error) and everything else unchanged.
C22_PromotionFrame ==
  [][\A j \in JobIds :
       (InScheduled(j) = 1 /\ InScheduled(j)' = 0) =>
         /\ \E s \in SchedIds :
              /\ scheds[s].pc = "promoting" /\ j \in scheds[s].due
              /\ j \notin scheds'[s].due
         /\ <<j, jobs[j].scheduledFor>> \in scheduled
         /\ jobs[j].scheduledFor <= now
         /\ scheduled' = scheduled \ {<<j, jobs[j].scheduledFor>>}
         /\ queues' = [queues EXCEPT ![OwnList(j)] = Append(@, j)]
         /\ jobs' = [jobs EXCEPT ![j].status = "pending",
                                 ![j].scheduledFor = Unset]
         /\ UNCHANGED <<now, submitting, processing, dead, results,
                        published, workers, lock, invocations>>
    ]_vars

\* C22 witness: a gpu job that failed once has been promoted in a running
\* tick to the tail of the gpu list where another job waits: it is pending
\* with one attempt and without scheduled timestamp.
C22_Witness ==
  \E j, k \in Submitted, s \in SchedIds :
    /\ scheds[s].pc = "promoting" /\ lock.holder = s
    /\ jobs[j].routingKey = "gpu" /\ jobs[j].attempts = 1
    /\ jobs[j].status = "pending" /\ jobs[j].scheduledFor = Unset
    /\ InScheduled(j) = 0
    /\ Ahead(OwnList(j), k, j)

\* Job j is in the scheduled set and its scheduled time has been reached.
Due(j) == \E e \in scheduled : e[1] = j /\ e[2] <= now

\* C23: every job in the scheduled set whose scheduled time has been
\* reached is eventually promoted into its priority list, as long as one
\* scheduler instance keeps ticking, also when the other instance stops or
\* dies with the lock.
C23_DueJobPromoted ==
  \A j \in JobIds : Due(j) ~> (InScheduled(j) = 0 /\ InQueues(j) = 1)

\* C23 witness: a job is due while the lock is still held by the instance
\* that died in its tick, and the instance that keeps ticking is idle.
C23_Witness ==
  \E j \in Submitted :
    /\ Due(j)
    /\ lock.holder = "s1" /\ scheds["s1"].pc = "idle"
    /\ now < lock.expires
    /\ scheds["s2"].pc = "idle"

\* C24: an instance that starts a tick while the lock key is there only
\* goes through a skipped tick: that step and the step that ends the
\* skipped tick promote nothing and leave the scheduled set, every priority
\* list, every job record, the lock (holder and expiry) and the other
\* instance unchanged.
C24_SkippedTickNoOp ==
  [][\A s \in SchedIds :
       /\ (scheds[s].pc = "idle" /\ scheds'[s].pc # "idle"
             /\ lock.holder # "") =>
            /\ scheds'[s] = [IdleSched EXCEPT !.pc = "skipped"]
            /\ \A t \in SchedIds \ {s} : scheds'[t] = scheds[t]
            /\ UNCHANGED <<now, jobs, submitting, queues, processing,
                           scheduled, dead, results, published, workers,
                           lock, invocations>>
       /\ (scheds[s].pc = "skipped" /\ scheds'[s] # scheds[s]) =>
            /\ scheds'[s] = IdleSched
            /\ \A t \in SchedIds \ {s} : scheds'[t] = scheds[t]
            /\ UNCHANGED <<now, jobs, submitting, queues, processing,
                           scheduled, dead, results, published, workers,
                           lock, invocations>>
    ]_vars

\* C24 witness: an instance's tick was skipped on the lock of an instance
\* that died in its tick, while a due job is left in the scheduled set and
\* another job waits in its priority list.
C24_Witness ==
  \E s, t \in SchedIds, j, k \in Submitted :
    /\ scheds[s].pc = "skipped"
    /\ lock.holder = t /\ scheds[t].pc = "idle"
    /\ Due(j) /\ InQueues(k) = 1

\* C25: a completed job is in no queue-like structure (in particular not
\* on the processing list) and held by no worker, its stored Result has
\* status completed and can be read, and a notification was published for
\* it; a job becomes completed only by the success step of the worker that
\* holds it, and after a handler's success that is the only change the
\* job's record gets.
C25_Completed ==
  [][\A j \in JobIds :
       /\ (jobs[j].status = "completed" =>
             /\ Occurrences(j) = 0 /\ Holders(j) = {}
             /\ results[j].status = "completed"
             /\ GetResult(j) = "completed"
             /\ published[j] >= 1)'
       /\ (jobs[j].status # "completed" /\ jobs'[j].status = "completed") =>
            /\ jobs[j].status = "processing" /\ Count(processing, j) = 1
            /\ \E w \in Holders(j) :
                 /\ workers[w].out = "success"
                 /\ workers'[w].job = 0
       /\ \A w \in Holders(j) :
            (workers[w].out = "success" /\ jobs'[j] # jobs[j]) =>
              jobs'[j] = [jobs[j] EXCEPT !.status = "completed"]
    ]_vars

\* C25 witness: a job has completed at its second attempt (its failed first
\* attempt was retried) while the other job is on the processing list.
C25_Witness ==
  \E j, k \in Submitted :
    /\ jobs[j].status = "completed" /\ jobs[j].attempts = 1
    /\ invocations[j] = 2 /\ published[j] = 2
    /\ Count(processing, k) = 1

\* C26 (as claimed): in every state, also between the record write and the
\* enqueue of a submission, a job is pending exactly when it is in a
\* priority list, processing exactly when it is on the processing list,
\* scheduled exactly when it is in the scheduled set, and failed exactly
\* when it is in the dead letter queue.
C26_StatusMatchesStructure ==
  \A j \in JobIds :
    /\ jobs[j].status = "pending" <=> InQueues(j) >= 1
    /\ jobs[j].status = "processing" <=> Count(processing, j) >= 1
    /\ jobs[j].status = "scheduled" <=> InScheduled(j) >= 1
    /\ jobs[j].status = "failed" <=> Count(dead, j) >= 1

\* C27 (as claimed): a job that waits for a retry (rescheduled into the
\* scheduled set, or promoted and pending again) has no stored Result and
\* no published notification, so get-result does not report failed for it;
\* and at most one notification is published per job.
C27_ResultOnlyTerminal ==
  \A j \in JobIds :
    /\ jobs[j].status \in {"pending", "scheduled"} =>
         /\ GetResult(j) = "NotFound"
         /\ published[j] = 0
    /\ published[j] <= 1

\* The result key of job j is there and its TTL has not run out.
ResultLive(j) == results[j].status # "" /\ now < results[j].expires

\* C28: the wait for a result ends in Timeout only when, at that moment,
\* there is no unexpired result for the job; a wait that ends at or after
\* its deadline while an unexpired result exists returns that result, also
\* when the result's notification was published before the subscription.
C28_FinalRead ==
  [][\A j \in JobIds :
       /\ (waiters[j].pc = "waiting" /\ waiters'[j].pc = "timeout") =>
            ~ResultLive(j)
       /\ (waiters[j].pc = "waiting" /\ waiters'[j] # waiters[j]
             /\ now >= waiters[j].deadline /\ ResultLive(j)) =>
            /\ waiters'[j].pc = "returned"
            /\ waiters'[j].got = results[j].status
    ]_vars

\* C28 witness: a wait has returned the result of a job whose only
\* notification had been published before the wait subscribed.
C28_Witness ==
  \E j \in Submitted :
    /\ waiters[j].pc = "returned"
    /\ published[j] = 1 /\ waiters[j].seen = 1
    /\ waiters[j].got = results[j].status

\* C29: terminal states are absorbing: no step changes the record of a
\* completed or failed job, puts the job into a priority list, the
\* scheduled set or the processing list, hands it to a worker, invokes its
\* handler again, or changes its entry in the dead letter queue.
C29_TerminalAbsorbing ==
  [][\A j \in JobIds :
       Terminal(j) =>
         /\ jobs'[j] = jobs[j]
         /\ (InQueues(j) = 0 /\ InScheduled(j) = 0)'
         /\ (Count(processing, j) = 0 /\ Holders(j) = {})'
         /\ invocations'[j] = invocations[j]
         /\ Count(dead', j) = Count(dead, j)
    ]_vars

\* C29 witness: a job has completed while a scheduler instance whose tick
\* has outlasted its lease still has the job in the list of due jobs it
\* read, and the other job waits in the scheduled set for its retry.
C29_Witness ==
  \E j, k \in Submitted, s \in Promoting :
    /\ jobs[j].status = "completed" /\ invocations[j] = 1
    /\ j \in scheds[s].due /\ s \notin WithinLease
    /\ jobs[k].attempts = 1 /\ InScheduled(k) = 1

\* C30 (as claimed): every submitted job eventually reaches a terminal
\* state, completed or failed, when every worker keeps running, no worker
\* dies and every job's priority is served by the workers.
C30_EventuallyTerminal ==
  \A j \in JobIds : (jobs[j].status # "none") ~> Terminal(j)

====
